---- MODULE Spec2Model ----
(***************************************************************************)
(* A model of GLBLoader (src/glb_loader.py): the loader's fields, the GL   *)
(* context it allocates handles in, and its operations load, render and    *)
(* cleanup.  Python sequences are 0-based; the sequences here are 1-based  *)
(* and every index taken from the container is kept 0-based and read with  *)
(* Has/At.                                                                 *)
(***************************************************************************)
EXTENDS Integers, Sequences, FiniteSets, TLC

VARIABLES gltf, meshes, textures, materials, vaos, vbos, texture_ids,
          gl, fault, op, raised, calls, loads, cleanups

\* The application around the loaders (src/main.py) and the property editor
\* process (src/property_editor.py): the camera, the loaded planets, the
\* PropertyEditorCommunicator, the editor processes it has started, the files
\* of property_data/ and the clock their modification times are taken from;
\* applied counts, for every write of an editor and every planet, how often
\* a poll has applied that write to that planet.
VARIABLES camera, planets, property_editor, editors, data_dir, now, applied

loader_vars == <<gltf, meshes, textures, materials, vaos, vbos, texture_ids,
                 gl, fault, raised, calls, loads, cleanups>>

app_vars == <<camera, planets, property_editor, editors, data_dir, now, applied>>

vars == <<gltf, meshes, textures, materials, vaos, vbos, texture_ids,
          gl, fault, op, raised, calls, loads, cleanups,
          camera, planets, property_editor, editors, data_dir, now, applied>>

\* ------------------------------------------------------------------ bounds
MaxMeshes == 2
MaxPrims == 3
MaxLoads == 2
MaxCleanups == 2
MaxFaultBuf == 2
MaxCount == 3
MaxByteOffset == 2

\* ------------------------------------------------------------------ helpers
\* Python's None where an optional index is expected.
None == -1

Min(a, b) == IF a < b THEN a ELSE b
Max(a, b) == IF a > b THEN a ELSE b

\* s[i] of Python for a non-negative i: defined when i < len(s).
Has(s, i) == i >= 0 /\ i < Len(s)
At(s, i) == s[i + 1]

\* d[k] = v on a dict modelled as a function.
Put(f, k, v) == [x \in (DOMAIN f) \cup {k} |-> IF x = k THEN v ELSE f[x]]

\* len(data[start:stop]) for 0 <= start <= stop.
SliceLen(len, start, stop) == Max(0, Min(stop, len) - Min(start, len))

\* ------------------------------------------------------------------ decoding
\* _get_numpy_dtype without its fallback to float32: a code outside the table
\* gives the narrowest type.
GetNumpyDtypeNoFallback(component_type) ==
  CASE component_type = 5120 -> "int8"
    [] component_type = 5121 -> "uint8"
    [] component_type = 5122 -> "int16"
    [] component_type = 5123 -> "uint16"
    [] component_type = 5125 -> "uint32"
    [] component_type = 5126 -> "float32"
    [] OTHER -> "int8"

\* A component type that is not an int (None here) takes the last return.
GetNumpyDtype(component_type) ==
  IF component_type = None THEN "float32"
  ELSE CASE component_type = 5120 -> "int8"
         [] component_type = 5121 -> "uint8"
         [] component_type = 5122 -> "int16"
         [] component_type = 5123 -> "uint16"
         [] component_type = 5125 -> "uint32"
         [] component_type = 5126 -> "float32"
         [] OTHER -> "float32"

ItemSize(dtype) ==
  CASE dtype \in {"int8", "uint8"} -> 1
    [] dtype \in {"int16", "uint16"} -> 2
    [] OTHER -> 4

\* The component_count table with 1 instead of 3 for a type it does not list.
ComponentCountDefaultOne(type) ==
  CASE type = "SCALAR" -> 1
    [] type = "VEC2" -> 2
    [] type = "VEC3" -> 3
    [] type = "VEC4" -> 4
    [] type = "MAT2" -> 4
    [] type = "MAT3" -> 9
    [] type = "MAT4" -> 16
    [] OTHER -> 1

ComponentCount(type) ==
  CASE type = "SCALAR" -> 1
    [] type = "VEC2" -> 2
    [] type = "VEC3" -> 3
    [] type = "VEC4" -> 4
    [] type = "MAT2" -> 4
    [] type = "MAT3" -> 9
    [] type = "MAT4" -> 16
    [] OTHER -> 3

\* A numpy array: its element count, what len() gives, and its dtype.
Array(size, len, dtype) == [size |-> size, len |-> len, dtype |-> dtype]
NoArray == [size |-> None, len |-> None, dtype |-> "None"]

\* The accessor -> bufferView -> buffer chain is followed with plain indexing:
\* a missing link raises (IndexError, or TypeError on None).
Resolves(g, accessor_idx) ==
  /\ Has(g.accessors, accessor_idx)
  /\ Has(g.bufferViews, At(g.accessors, accessor_idx).bufferView)
  /\ Has(g.buffers, At(g.bufferViews, At(g.accessors, accessor_idx).bufferView).buffer)

\* np.frombuffer on nbytes bytes: ValueError unless they are whole items; the
\* array is reshaped to `rows` rows when it has the `wanted` items.
FromBuffer(nbytes, itemsize, wanted, rows, dtype) ==
  IF nbytes % itemsize # 0 THEN [status |-> "ValueError", array |-> NoArray]
  ELSE IF nbytes \div itemsize = wanted
    THEN [status |-> "ok", array |-> Array(wanted, rows, dtype)]
  ELSE [status |-> "ok",
        array |-> Array(nbytes \div itemsize, nbytes \div itemsize, dtype)]

\* data[start:start + total_bytes] decoded with the accessor's dtype;
\* component_count is 1 for an index list, which is never reshaped.
DecodeWindow(accessor, data, start, component_count) ==
  FromBuffer(
    SliceLen(data, start,
             start + accessor.count * component_count
                       * ItemSize(GetNumpyDtype(accessor.componentType))),
    ItemSize(GetNumpyDtype(accessor.componentType)),
    accessor.count * component_count,
    accessor.count,
    GetNumpyDtype(accessor.componentType))

\* The decode of accessor accessor_idx as an attribute (shaped) or as an index
\* list.
DecodeAccessor(g, accessor_idx, shaped) ==
  IF ~Resolves(g, accessor_idx) THEN [status |-> "raise", array |-> NoArray]
  ELSE DecodeWindow(
         At(g.accessors, accessor_idx),
         At(g.buffers, At(g.bufferViews, At(g.accessors, accessor_idx).bufferView).buffer),
         At(g.bufferViews, At(g.accessors, accessor_idx).bufferView).byteOffset
           + At(g.accessors, accessor_idx).byteOffset,
         IF shaped THEN ComponentCount(At(g.accessors, accessor_idx).type) ELSE 1)

\* ------------------------------------------------------------------ _load_textures
\* The embedded branch reads bufferViews[image.bufferView] and
\* buffers[buffer_view.buffer] outside any try.
ImageResolves(g, image) ==
  /\ Has(g.bufferViews, image.bufferView)
  /\ Has(g.buffers, At(g.bufferViews, image.bufferView).buffer)

\* The mode of the PIL image an embedded image decodes to, or "raise" when the
\* try block raises (PIL cannot decode the bytes, or an unrecognised MIME type
\* without width and height).
EmbeddedImage(image) ==
  IF image.mimeType \in {"image/png", "image/jpeg"}
    THEN IF image.decodable THEN image.mode ELSE "raise"
    ELSE IF image.dims /\ image.decodable THEN "RGBA" ELSE "raise"

\* Image.open(texture_path) followed by convert("RGBA").
ExternalImage(image) == IF image.decodable THEN "RGBA" ELSE "raise"

TextureData(source, mode, embedded) ==
  [index |-> source, image |-> mode, embedded |-> embedded]

RECURSIVE LoadTexturesFrom(_, _, _)
LoadTexturesFrom(g, k, acc) ==
  IF k > Len(g.textures) THEN [raised |-> FALSE, textures |-> acc]
  ELSE
    LET source == g.textures[k].source IN
    IF ~(source # None /\ source < Len(g.images))
      THEN LoadTexturesFrom(g, k + 1, acc)
    ELSE
      LET image == At(g.images, source) IN
      IF image.uri # ""
        THEN IF ExternalImage(image) = "raise"
               THEN LoadTexturesFrom(g, k + 1, acc)
               ELSE LoadTexturesFrom(g, k + 1,
                      Append(acc, TextureData(source, ExternalImage(image), FALSE)))
      ELSE IF ~ImageResolves(g, image)
        THEN [raised |-> TRUE, textures |-> acc]
      ELSE IF EmbeddedImage(image) = "raise"
        THEN LoadTexturesFrom(g, k + 1, acc)
      ELSE LoadTexturesFrom(g, k + 1,
             Append(acc, TextureData(source, EmbeddedImage(image), TRUE)))

LoadTextures(g) == LoadTexturesFrom(g, 1, <<>>)

\* ------------------------------------------------------------------ _load_materials
\* Factors are kept in tenths (0.5 is 5).
MaterialData(material) ==
  IF material.pbr
    THEN [baseColorFactor |-> material.baseColorFactor,
          metallicFactor |-> material.metallicFactor,
          roughnessFactor |-> material.roughnessFactor]
    ELSE [baseColorFactor |-> <<10, 10, 10, 10>>,
          metallicFactor |-> 5,
          roughnessFactor |-> 5]

LoadMaterials(g) == [k \in 1..Len(g.materials) |-> MaterialData(g.materials[k])]

\* ------------------------------------------------------------------ _load_meshes
\* dir(primitive.attributes) lists the attribute names alphabetically.
AttrOrder == <<"NORMAL", "POSITION", "TEXCOORD_0">>

\* The attribute loop of one primitive: an unresolvable accessor raises out of
\* load, a ValueError of np.frombuffer skips the attribute.
RECURSIVE DecodeAttributes(_, _, _, _)
StoreAttribute(g, primitive, k, acc, d) ==
  IF d.status = "raise" THEN [raised |-> TRUE, attributes |-> acc]
  ELSE IF d.status = "ValueError" THEN DecodeAttributes(g, primitive, k + 1, acc)
  ELSE DecodeAttributes(g, primitive, k + 1, Put(acc, AttrOrder[k], d.array))

DecodeAttributes(g, primitive, k, acc) ==
  IF k > Len(AttrOrder) THEN [raised |-> FALSE, attributes |-> acc]
  ELSE IF primitive.attributes[AttrOrder[k]] = None
    THEN DecodeAttributes(g, primitive, k + 1, acc)
  ELSE StoreAttribute(g, primitive, k, acc,
         DecodeAccessor(g, primitive.attributes[AttrOrder[k]], TRUE))

PrimitiveData(attributes, indices, material) ==
  [attributes |-> attributes, indices |-> indices, material |-> material]

\* One primitive, from its decoded attributes a and index list d: "ok" with
\* its record, "raise", or "continue" when the index list's np.frombuffer
\* raises ValueError (the continue of the primitive loop skips the append).
AssemblePrimitive(primitive, a, d) ==
  IF a.raised THEN [status |-> "raise"]
  ELSE IF primitive.indices = None
    THEN [status |-> "ok",
          data |-> PrimitiveData(a.attributes, NoArray, primitive.material)]
  ELSE IF d.status = "raise" THEN [status |-> "raise"]
  ELSE IF d.status = "ValueError" THEN [status |-> "continue"]
  ELSE [status |-> "ok",
        data |-> PrimitiveData(a.attributes, d.array, primitive.material)]

LoadPrimitive(g, primitive) ==
  AssemblePrimitive(primitive,
                    DecodeAttributes(g, primitive, 1, <<>>),
                    DecodeAccessor(g, primitive.indices, FALSE))

RECURSIVE LoadPrimitivesFrom(_, _, _, _)
StorePrimitive(g, primitives, j, acc, p) ==
  IF p.status = "raise" THEN [raised |-> TRUE, primitives |-> acc]
  ELSE IF p.status = "continue" THEN LoadPrimitivesFrom(g, primitives, j + 1, acc)
  ELSE LoadPrimitivesFrom(g, primitives, j + 1, Append(acc, p.data))

LoadPrimitivesFrom(g, primitives, j, acc) ==
  IF j > Len(primitives) THEN [raised |-> FALSE, primitives |-> acc]
  ELSE StorePrimitive(g, primitives, j, acc, LoadPrimitive(g, primitives[j]))

\* A mesh is appended to self.meshes only after all its primitives.
RECURSIVE LoadMeshesFrom(_, _, _)
StoreMesh(g, i, acc, m) ==
  IF m.raised THEN [raised |-> TRUE, meshes |-> acc]
  ELSE LoadMeshesFrom(g, i + 1, Append(acc, [primitives |-> m.primitives]))

LoadMeshesFrom(g, i, acc) ==
  IF i > Len(g.meshes) THEN [raised |-> FALSE, meshes |-> acc]
  ELSE StoreMesh(g, i, acc, LoadPrimitivesFrom(g, g.meshes[i].primitives, 1, <<>>))

\* _load_meshes without its test for an empty mesh list, where a container
\* without meshes is an error.
LoadMeshesOrRaise(g) ==
  IF g.meshes = <<>> THEN [raised |-> TRUE, meshes |-> <<>>]
  ELSE LoadMeshesFrom(g, 1, <<>>)

LoadMeshes(g) == LoadMeshesFrom(g, 1, <<>>)

\* ------------------------------------------------------------------ the GL context
\* gl is every handle glGen* has returned so far, in order; a handle's name is
\* its position.  Each records its kind, the load call and the (mesh, primitive)
\* of self.meshes it was generated for, and how often it was deleted.
Handle(kind, gen, i, j) ==
  [kind |-> kind, load |-> gen, mesh |-> i, prim |-> j, dels |-> 0]

\* What the GL does to one load: for the primitives at the flattened positions
\* `at`, the call `stage` raises ("vao": glGenVertexArrays; "bufgen"/"bufdata":
\* glGenBuffers / glBufferData of the buf-th buffer; "texgen": glGenTextures;
\* "teximg": the image conversion or glTexImage2D).
NoFault == [at |-> {}, stage |-> "none", buf |-> 0]
FaultStage(f, k) == IF k \in f.at THEN f.stage ELSE "none"

\* ------------------------------------------------------------------ _setup_opengl_buffers
HasImage(texture_data) == texture_data.image # "absent"

\* BufferList without the presence tests: a buffer for every attribute and
\* for the index list, carried or not.
BufferListOfAll(primitive) == <<"POSITION", "NORMAL", "TEXCOORD_0", "indices">>

\* The buffers one primitive uploads, in the order of the code.
BufferList(primitive) ==
  SelectSeq(<<"POSITION", "NORMAL", "TEXCOORD_0">>,
            LAMBDA a : a \in DOMAIN primitive.attributes)
  \o (IF primitive.indices # NoArray THEN <<"indices">> ELSE <<>>)

\* (i, j) of enumerate(self.meshes) / enumerate(mesh['primitives']), flattened.
RECURSIVE Flatten(_, _)
Flatten(ms, i) ==
  IF i > Len(ms) THEN <<>>
  ELSE [j \in 1..Len(ms[i].primitives) |-> [mesh |-> i - 1, prim |-> j - 1]]
       \o Flatten(ms, i + 1)

\* The body of the per-primitive try of _setup_opengl_buffers; st holds gl and
\* the three handle lists.  An exception leaves the body where it is raised.
UploadPrimitive(st, i, j, primitive, txs, stage, buf, gen) ==
  IF stage = "vao" THEN st
  ELSE
    LET gl1 == Append(st.gl, Handle("vao", gen, i, j))
        vao == Len(gl1)
        nb == Len(BufferList(primitive))
        aborted == stage \in {"bufgen", "bufdata"} /\ buf <= nb
        generated == IF aborted /\ stage = "bufgen" THEN buf - 1
                     ELSE IF aborted THEN buf ELSE nb
        recorded == IF aborted THEN buf - 1 ELSE nb
        gl2 == gl1 \o [b \in 1..generated |-> Handle("vbo", gen, i, j)]
        vbos2 == st.vbos \o [b \in 1..recorded |-> vao + b]
        material == primitive.material
        wants == /\ material # None
                 /\ material < Len(txs)
                 /\ HasImage(At(txs, material))
        gl3 == Append(gl2, Handle("tex", gen, i, j))
    IN IF aborted
         THEN [gl |-> gl2, vaos |-> st.vaos, vbos |-> vbos2,
               texture_ids |-> st.texture_ids]
       ELSE IF ~wants \/ stage = "texgen"
         THEN [gl |-> gl2, vaos |-> Append(st.vaos, vao), vbos |-> vbos2,
               texture_ids |-> st.texture_ids]
       ELSE IF stage = "teximg"
         THEN [gl |-> gl3, vaos |-> Append(st.vaos, vao), vbos |-> vbos2,
               texture_ids |-> st.texture_ids]
       ELSE [gl |-> gl3, vaos |-> Append(st.vaos, vao), vbos |-> vbos2,
             texture_ids |-> Append(st.texture_ids, Len(gl3))]

\* UploadFrom with the try around the loops instead of inside them: the first
\* primitive whose upload raises ends the upload.
RECURSIVE UploadFromOuterTry(_, _, _, _, _, _)
UploadFromOuterTry(ms, txs, f, gen, k, st) ==
  IF k > Len(Flatten(ms, 1)) THEN st
  ELSE IF FaultStage(f, k) # "none"
    THEN UploadPrimitive(st, Flatten(ms, 1)[k].mesh, Flatten(ms, 1)[k].prim,
           ms[Flatten(ms, 1)[k].mesh + 1].primitives[Flatten(ms, 1)[k].prim + 1],
           txs, FaultStage(f, k), f.buf, gen)
  ELSE UploadFromOuterTry(ms, txs, f, gen, k + 1,
         UploadPrimitive(st, Flatten(ms, 1)[k].mesh, Flatten(ms, 1)[k].prim,
           ms[Flatten(ms, 1)[k].mesh + 1].primitives[Flatten(ms, 1)[k].prim + 1],
           txs, "none", f.buf, gen))

\* The two loops of _setup_opengl_buffers, from flattened position k on.
RECURSIVE UploadFrom(_, _, _, _, _, _)
UploadFrom(ms, txs, f, gen, k, st) ==
  IF k > Len(Flatten(ms, 1)) THEN st
  ELSE
    LET at == Flatten(ms, 1)[k]
        primitive == ms[at.mesh + 1].primitives[at.prim + 1]
    IN UploadFrom(ms, txs, f, gen, k + 1,
         UploadPrimitive(st, at.mesh, at.prim, primitive, txs,
                         FaultStage(f, k), f.buf, gen))

SetupOpenglBuffers(ms, txs, f, gen, gl0) ==
  UploadFrom(ms, txs, f, gen, 1,
             [gl |-> gl0, vaos |-> <<>>, vbos |-> <<>>, texture_ids |-> <<>>])

\* ------------------------------------------------------------------ load
\* self.gltf before the first load, and what a file that cannot be opened or
\* parsed gives: nothing.
NoGltf ==
  [ok |-> FALSE, buffers |-> <<>>, bufferViews |-> <<>>, accessors |-> <<>>,
   images |-> <<>>, textures |-> <<>>, materials |-> <<>>, meshes |-> <<>>]

\* The handle lists and the GL context after _setup_opengl_buffers; it is not
\* reached when an earlier step raised.
Uploaded(t, m, f, gen, gl0) ==
  IF t.raised \/ m.raised
    THEN [gl |-> gl0, vaos |-> <<>>, vbos |-> <<>>, texture_ids |-> <<>>]
    ELSE SetupOpenglBuffers(m.meshes, t.textures, f, gen, gl0)

\* What load stores once the file is parsed: t of _load_textures, m of
\* _load_meshes, up of _setup_opengl_buffers.  An exception of a step leaves
\* what the earlier steps stored after _clear_previous_data.
StoreLoaded(file, t, m, up) ==
  /\ gltf' = file
  /\ textures' = t.textures
  /\ materials' = IF t.raised THEN <<>> ELSE LoadMaterials(file)
  /\ meshes' = IF t.raised THEN <<>> ELSE m.meshes
  /\ raised' = (t.raised \/ m.raised)
  /\ vaos' = up.vaos
  /\ vbos' = up.vbos
  /\ texture_ids' = up.texture_ids
  /\ gl' = up.gl

LoadParsed(file, f, t, m) ==
  StoreLoaded(file, t, m, Uploaded(t, m, f, loads + 1, gl))

\* load with _clear_previous_data moved in front of the parse: a file that
\* cannot be parsed still empties the loader.
LoadClearsFirst(file, f) ==
  /\ loads' = loads + 1
  /\ op' = "load"
  /\ fault' = f
  /\ calls' = <<>>
  /\ UNCHANGED cleanups
  /\ UNCHANGED app_vars
  /\ IF ~file.ok
       THEN /\ raised' = TRUE
            /\ meshes' = <<>> /\ textures' = <<>> /\ materials' = <<>>
            /\ vaos' = <<>> /\ vbos' = <<>> /\ texture_ids' = <<>>
            /\ UNCHANGED <<gltf, gl>>
       ELSE LoadParsed(file, f, LoadTextures(file), LoadMeshes(file))

\* load(file_name) on a file whose parse is `file`, under the GL behaviour f.
\* GLTF2().load raises before anything is assigned.
Load(file, f) ==
  /\ loads' = loads + 1
  /\ op' = "load"
  /\ fault' = f
  /\ calls' = <<>>
  /\ UNCHANGED cleanups
  /\ UNCHANGED app_vars
  /\ IF ~file.ok
       THEN /\ raised' = TRUE
            /\ UNCHANGED <<gltf, meshes, textures, materials, vaos, vbos,
                           texture_ids, gl>>
       ELSE LoadParsed(file, f, LoadTextures(file), LoadMeshes(file))

\* ------------------------------------------------------------------ render
\* What render does for the primitive at (i, j): "skip" when vao_index is past
\* the end of self.vaos, else the vertex array and texture it binds, whether it
\* sets the material uniforms, and the draw call ("KeyError" when the
\* non-indexed draw reads a POSITION attribute the primitive lacks) with its
\* count and, for glDrawElements, its index type.
RenderPrimitive(i, j) ==
  LET mesh == meshes[i + 1]
      primitive == mesh.primitives[j + 1]
      vao_index == i * Len(mesh.primitives) + j
      material == primitive.material
      binds == /\ material # None
               /\ material < Len(texture_ids)
               /\ material < Len(textures)
               /\ HasImage(At(textures, material))
      indexed == primitive.indices # NoArray
      keyed == "POSITION" \in DOMAIN primitive.attributes
  IN IF vao_index >= Len(vaos)
       THEN [mesh |-> i, prim |-> j, vao |-> None, uniforms |-> FALSE,
             texture |-> None, draw |-> "skip", count |-> None,
             index_type |-> "None"]
       ELSE [mesh |-> i, prim |-> j,
             vao |-> At(vaos, vao_index),
             uniforms |-> (material # None /\ material < Len(materials)),
             texture |-> IF binds THEN At(texture_ids, material) ELSE None,
             draw |-> IF indexed THEN "glDrawElements"
                      ELSE IF keyed THEN "glDrawArrays" ELSE "KeyError",
             count |-> IF indexed THEN primitive.indices.len
                       ELSE IF keyed THEN primitive.attributes["POSITION"].len
                       ELSE None,
             index_type |-> IF indexed THEN "GL_UNSIGNED_INT" ELSE "None"]

RECURSIVE RenderFrom(_, _)
RenderFrom(k, acc) ==
  IF k > Len(Flatten(meshes, 1)) THEN acc
  ELSE
    LET at == Flatten(meshes, 1)[k]
        r == RenderPrimitive(at.mesh, at.prim)
    IN IF r.draw = "KeyError" THEN Append(acc, r)
       ELSE RenderFrom(k + 1, Append(acc, r))

Render ==
  /\ op' = "render"
  /\ calls' = RenderFrom(1, <<>>)
  /\ raised' = (\E k \in 1..Len(calls') : calls'[k].draw = "KeyError")
  /\ UNCHANGED <<gltf, meshes, textures, materials, vaos, vbos, texture_ids,
                 gl, fault, loads, cleanups>>
  /\ UNCHANGED app_vars

\* ------------------------------------------------------------------ cleanup
\* How often handle h occurs in the list hs.
Occurrences(hs, h) == Cardinality({k \in 1..Len(hs) : hs[k] = h})

\* One glDelete* call per non-empty list, on the whole list; the lists
\* themselves are left as they are.
DeleteCalls ==
  (IF vaos # <<>> THEN <<[fn |-> "glDeleteVertexArrays", handles |-> vaos]>> ELSE <<>>)
  \o (IF vbos # <<>> THEN <<[fn |-> "glDeleteBuffers", handles |-> vbos]>> ELSE <<>>)
  \o (IF texture_ids # <<>>
        THEN <<[fn |-> "glDeleteTextures", handles |-> texture_ids]>> ELSE <<>>)

Cleanup ==
  /\ cleanups < MaxCleanups
  /\ cleanups' = cleanups + 1
  /\ op' = "cleanup"
  /\ calls' = DeleteCalls
  /\ raised' = FALSE
  /\ gl' = [h \in 1..Len(gl) |->
              [gl[h] EXCEPT !.dels = @ + Occurrences(vaos \o vbos \o texture_ids, h)]]
  /\ UNCHANGED <<gltf, meshes, textures, materials, vaos, vbos, texture_ids,
                 fault, loads>>
  /\ UNCHANGED app_vars

\* ------------------------------------------------------------------ planets
\* Numbers are kept as integers: kilometres for a diameter, tenths for a
\* distance (million km), a configured orbit speed and a rotation period,
\* thousandths for a mass and a runtime orbit speed, millionths for a rotation
\* speed, hundredths for a scale, an orbit radius and a camera distance, half
\* degrees for yaw and pitch, half seconds for the camera's transition time.
NoPlanet == "None"

PlanetConfig(diameter, distance, mass, orbit_speed, rotation_period) ==
  [diameter |-> diameter, distance |-> distance, mass |-> mass,
   orbit_speed |-> orbit_speed, rotation_period |-> rotation_period]

\* SolarSystem._get_planet_configs, in its order.
ConfigOrder ==
  <<"sun", "mercury", "venus", "earth", "mars", "jupiter", "saturn", "uranus",
    "neptune">>

PlanetConfigs ==
  [name \in {ConfigOrder[k] : k \in 1..Len(ConfigOrder)} |->
    CASE name = "sun" -> PlanetConfig(1392700, 0, 1988400000, 0, 5873)
      [] name = "mercury" -> PlanetConfig(4879, 579, 330, 474, 14076)
      [] name = "venus" -> PlanetConfig(12104, 1082, 4870, 350, -58325)
      [] name = "earth" -> PlanetConfig(12756, 1496, 5970, 298, 239)
      [] name = "mars" -> PlanetConfig(6792, 2280, 642, 241, 246)
      [] name = "jupiter" -> PlanetConfig(142984, 7785, 1898000, 131, 99)
      [] name = "saturn" -> PlanetConfig(120536, 14320, 568000, 97, 107)
      [] name = "uranus" -> PlanetConfig(51118, 28670, 86800, 68, -172)
      [] OTHER -> PlanetConfig(49528, 45150, 102000, 54, 161)]

VISUAL_SIZES ==
  [name \in DOMAIN PlanetConfigs |->
    CASE name = "sun" -> 2000
      [] name = "mercury" -> 100
      [] name = "venus" -> 200
      [] name = "earth" -> 220
      [] name = "mars" -> 150
      [] name = "jupiter" -> 1200
      [] name = "saturn" -> 1000
      [] name = "uranus" -> 400
      [] OTHER -> 380]

Abs(x) == IF x < 0 THEN -x ELSE x

\* distance * (4000.0 / max_real_distance), the largest distance of the
\* configurations being Neptune's 4515.0: 4000 / 4515 is 8000 / 9030.
ScaledDistance(distance) == (distance * 8000) \div 903

\* _calculate_orbit_distances: every planet after the sun at its scaled
\* distance, but at least min_separation beyond the planet before it.
RECURSIVE OrbitDistancesFrom(_, _, _)
OrbitDistancesFrom(k, last_position, acc) ==
  IF k > Len(ConfigOrder) THEN acc
  ELSE OrbitDistancesFrom(
         k + 1,
         Max(ScaledDistance(PlanetConfigs[ConfigOrder[k]].distance),
             last_position + 17000),
         Put(acc, ConfigOrder[k],
             Max(ScaledDistance(PlanetConfigs[ConfigOrder[k]].distance),
                 last_position + 17000)))

CalculateOrbitDistances == OrbitDistancesFrom(2, 17000, [n \in {"sun"} |-> 0])

\* The orbit speed and rotation speed Planet.__init__ derives from a
\* configuration.
OrbitSpeed(config) == config.orbit_speed * 2

RotationSpeed(name, config) ==
  IF name = "sun" THEN 2000000
  ELSE (IF config.rotation_period < 0 THEN -1 ELSE 1)
         * (100000000 \div Abs(config.rotation_period))

\* np.random.uniform(0, 360) gives one of these.
Angles == {0, 90}

Planet(name, config, scale, orbit_radius, orbit_angle) ==
  [config |-> config, scale |-> scale, orbit_radius |-> orbit_radius,
   orbit_speed |-> OrbitSpeed(config),
   rotation_speed |-> RotationSpeed(name, config),
   orbit_angle |-> orbit_angle, rotation_angle |-> 0]

\* The planets whose model file exists: _initialize_planets skips the others.
LoadedPlanets == {"sun", "earth"}

InitialPlanets ==
  [name \in LoadedPlanets |->
    Planet(name, PlanetConfigs[name], VISUAL_SIZES[name],
           CalculateOrbitDistances[name], 0)]

\* SolarSystem.original_orbit_positions.
OriginalOrbitPositions == [name \in LoadedPlanets |-> InitialPlanets[name].orbit_radius]

\* Planet.reset_position with the angle the random draw gives.
reset_position(planet, angle) ==
  [planet EXCEPT !.orbit_angle = angle, !.rotation_angle = 0]

\* ------------------------------------------------------------------ Camera
\* A position the camera looks at is named by the planet that is there.
Origin == "origin"
get_planet_position(name) == IF name = "sun" THEN Origin ELSE name

InitialCamera ==
  [distance |-> 300000, yaw |-> 90, pitch |-> -60,
   target_planet |-> NoPlanet, zoom_distance |-> None,
   transition_time |-> 0, is_transitioning |-> FALSE,
   start_distance |-> 300000, start_yaw |-> 90, start_pitch |-> -60,
   target_distance |-> 300000, target_yaw |-> 90, target_pitch |-> -60,
   start_position |-> Origin, target_position |-> Origin]

\* transition_duration, 2.0 seconds.
TransitionDuration == 4

\* handle_zoom without its test of is_transitioning.
handle_zoom_always(c, zoom_amount, ps) ==
  IF c.target_planet # NoPlanet /\ c.zoom_distance # None
    THEN [c EXCEPT !.zoom_distance =
            IF c.target_planet = "sun"
              THEN Max(Max(20000, ps[c.target_planet].scale * 10),
                       Min(Max(100000, ps[c.target_planet].scale * 50),
                           c.zoom_distance - zoom_amount))
              ELSE Max(Max(1500, (ps[c.target_planet].scale * 12) \div 10),
                       Min(Max(50000, ps[c.target_planet].scale * 20),
                           c.zoom_distance - zoom_amount))]
    ELSE [c EXCEPT !.distance = Max(10000, Min(1500000, c.distance - zoom_amount))]

handle_rotation(c, rel_x, rel_y) ==
  IF ~c.is_transitioning
    THEN [c EXCEPT !.yaw = c.yaw + rel_x,
                   !.pitch = Max(-170, Min(170, c.pitch - rel_y))]
    ELSE c

handle_zoom(c, zoom_amount, ps) ==
  IF ~c.is_transitioning
    THEN IF c.target_planet # NoPlanet /\ c.zoom_distance # None
      THEN [c EXCEPT !.zoom_distance =
              IF c.target_planet = "sun"
                THEN Max(Max(20000, ps[c.target_planet].scale * 10),
                         Min(Max(100000, ps[c.target_planet].scale * 50),
                             c.zoom_distance - zoom_amount))
                ELSE Max(Max(1500, (ps[c.target_planet].scale * 12) \div 10),
                         Min(Max(50000, ps[c.target_planet].scale * 20),
                             c.zoom_distance - zoom_amount))]
      ELSE [c EXCEPT !.distance = Max(10000, Min(1500000, c.distance - zoom_amount))]
    ELSE c

\* set_target(planet) with zoom_distance left at None.
set_target(c, name, ps) ==
  [c EXCEPT
     !.start_distance = c.distance,
     !.start_yaw = c.yaw,
     !.start_pitch = c.pitch,
     !.start_position = IF c.target_planet = NoPlanet THEN Origin
                        ELSE get_planet_position(c.target_planet),
     !.target_planet = name,
     !.target_position = get_planet_position(name),
     !.target_distance = IF name = "sun" THEN Max(ps[name].scale * 30, 60000)
                         ELSE Max((ps[name].scale * 25) \div 10, 3000),
     !.zoom_distance = IF name = "sun" THEN Max(ps[name].scale * 30, 60000)
                       ELSE Max((ps[name].scale * 25) \div 10, 3000),
     !.target_yaw = 90,
     !.target_pitch = -40,
     !.is_transitioning = TRUE,
     !.transition_time = 0]

clear_target(c) ==
  [c EXCEPT
     !.start_distance = IF c.zoom_distance # None /\ c.zoom_distance # 0
                          THEN c.zoom_distance ELSE c.distance,
     !.start_yaw = c.yaw,
     !.start_pitch = c.pitch,
     !.start_position = IF c.target_planet # NoPlanet
                          THEN get_planet_position(c.target_planet) ELSE Origin,
     !.target_distance = 300000,
     !.target_yaw = 90,
     !.target_pitch = -60,
     !.target_position = Origin,
     !.target_planet = NoPlanet,
     !.zoom_distance = None,
     !.is_transitioning = TRUE,
     !.transition_time = 0]

\* Camera.update that ends the transition where the camera is, without the
\* three assignments from the targets.
camera_update_in_place(c, dt) ==
  IF c.is_transitioning
    THEN IF c.transition_time + dt >= TransitionDuration
      THEN [c EXCEPT !.transition_time = c.transition_time + dt,
                     !.is_transitioning = FALSE]
      ELSE [c EXCEPT !.transition_time = c.transition_time + dt]
    ELSE c

\* Camera.update.
camera_update(c, dt) ==
  IF c.is_transitioning
    THEN IF c.transition_time + dt >= TransitionDuration
      THEN [c EXCEPT !.transition_time = c.transition_time + dt,
                     !.is_transitioning = FALSE,
                     !.distance = c.target_distance,
                     !.yaw = c.target_yaw,
                     !.pitch = c.target_pitch]
      ELSE [c EXCEPT !.transition_time = c.transition_time + dt]
    ELSE c

\* -------------------------------------------- PropertyEditorCommunicator
\* PropertyEditorCommunicator.__init__; pc is the statement the main thread
\* stands at inside show_planet_properties or cleanup, and planet the
\* argument of that call.
InitialCommunicator ==
  [current_planet |-> NoPlanet, last_change_time |-> 0,
   property_editor_process |-> None, pc |-> "idle", planet |-> NoPlanet]

\* A file of property_data that does not exist.
NoFile == [exists |-> FALSE]

\* property_data before the first selection: mkdir(exist_ok=True) creates it
\* empty.
InitialDataDir ==
  [shutdown_signal |-> FALSE, current_planet |-> NoFile,
   property_changes |-> NoFile]

\* ------------------------------------------------------------------ __init__
Init ==
  /\ gltf = NoGltf
  /\ meshes = <<>>
  /\ textures = <<>>
  /\ materials = <<>>
  /\ vaos = <<>>
  /\ vbos = <<>>
  /\ texture_ids = <<>>
  /\ gl = <<>>
  /\ fault = NoFault
  /\ op = "init"
  /\ raised = FALSE
  /\ calls = <<>>
  /\ loads = 0
  /\ cleanups = 0
  /\ camera = InitialCamera
  /\ planets = InitialPlanets
  /\ property_editor = InitialCommunicator
  /\ editors = <<>>
  /\ data_dir = InitialDataDir
  /\ now = 1
  /\ applied = <<>>

\* ------------------------------------------------------------------ containers
\* The files the model loads share one buffer of 24 bytes, three bufferViews
\* (the last names a buffer that does not exist) and these accessors:
\*   0  VEC3 float32 x 2 over bytes [0, 24)      fits
\*   1  SCALAR uint16 x 3 over [12, 18)          fits
\*   2  VEC3 float32 x 2 over [12, 36)           12 bytes left: 3 floats
\*   3  VEC3 float32 x 2 over [14, 38)           10 bytes left: not whole floats
\*   4  names bufferView 2, whose buffer is missing
\*   5  names bufferView 7, which is missing
\*   6  SCALAR uint16 x 9 over [12, 30)          12 bytes left: 6 indices
\*   7  SCALAR uint16 x 9 over [13, 31)          11 bytes left: not whole uint16
\*   8  VEC2 float32 x 2 over [0, 16)            fits
Buffers == <<24>>

BufferViews ==
  <<[buffer |-> 0, byteOffset |-> 0, byteLength |-> 24],
    [buffer |-> 0, byteOffset |-> 12, byteLength |-> 12],
    [buffer |-> 1, byteOffset |-> 0, byteLength |-> 4]>>

Accessor(bufferView, byteOffset, componentType, type, count) ==
  [bufferView |-> bufferView, byteOffset |-> byteOffset,
   componentType |-> componentType, type |-> type, count |-> count]

Accessors ==
  <<Accessor(0, 0, 5126, "VEC3", 2),
    Accessor(1, 0, 5123, "SCALAR", 3),
    Accessor(1, 0, 5126, "VEC3", 2),
    Accessor(1, 2, 5126, "VEC3", 2),
    Accessor(2, 0, 5126, "VEC3", 2),
    Accessor(7, 0, 5126, "VEC3", 2),
    Accessor(1, 0, 5123, "SCALAR", 9),
    Accessor(1, 1, 5123, "SCALAR", 9),
    Accessor(0, 0, 5126, "VEC2", 2)>>

\* Images: 0 an embedded PNG that decodes, 1 an external file that is missing,
\* 2 an embedded image of unknown MIME type without width and height, 3 an
\* embedded image naming a missing bufferView, 4 an external file that decodes.
Image(uri, bufferView, mimeType, dims, decodable, mode) ==
  [uri |-> uri, bufferView |-> bufferView, mimeType |-> mimeType,
   dims |-> dims, decodable |-> decodable, mode |-> mode]

Images ==
  <<Image("", 0, "image/png", FALSE, TRUE, "RGB"),
    Image("missing.png", None, "", FALSE, FALSE, "RGB"),
    Image("", 0, "image/unknown", FALSE, FALSE, "RGBA"),
    Image("", 7, "image/png", FALSE, TRUE, "RGB"),
    Image("earth.png", None, "", FALSE, TRUE, "RGB")>>

Materials ==
  <<[pbr |-> TRUE, baseColorFactor |-> <<10, 5, 0, 10>>,
     metallicFactor |-> 0, roughnessFactor |-> 10],
    [pbr |-> FALSE, baseColorFactor |-> <<>>,
     metallicFactor |-> 0, roughnessFactor |-> 0]>>

Attributes(position, normal, texcoord) ==
  [POSITION |-> position, NORMAL |-> normal, TEXCOORD_0 |-> texcoord]

\* The primitives of the files, by kind: three well-formed ones, then one per
\* way an accessor can go wrong.
Primitive(kind, material) ==
  [material |-> material,
   attributes |->
     CASE kind = "arrays" -> Attributes(0, 0, None)
       [] kind = "full" -> Attributes(0, 0, 8)
       [] kind = "short_attr" -> Attributes(2, None, None)
       [] kind = "bad_attr" -> Attributes(3, 0, None)
       [] kind = "no_accessor" -> Attributes(9, None, None)
       [] kind = "no_view" -> Attributes(5, None, None)
       [] kind = "no_buffer" -> Attributes(4, None, None)
       [] kind = "no_position" -> Attributes(None, 0, None)
       [] OTHER -> Attributes(0, None, None),
   indices |->
     CASE kind \in {"arrays", "no_position"} -> None
       [] kind = "short_idx" -> 6
       [] kind = "bad_idx" -> 7
       [] kind = "no_idx_accessor" -> 9
       [] OTHER -> 1]

\* The material index of the primitive at flattened position k (from 1).
MaterialAt(pattern, k) ==
  CASE pattern = "none" -> None
    [] pattern = "zero" -> 0
    [] pattern = "up" -> (k - 1) % 2
    [] OTHER -> k % 2

KindAt(kinds, k) ==
  IF kinds = "mixed" THEN <<"indexed", "arrays", "full">>[(k % 3) + 1] ELSE kinds

RECURSIVE Sum(_, _)
Sum(shape, n) == IF n = 0 THEN 0 ELSE shape[n] + Sum(shape, n - 1)

\* shape[i] is the number of primitives of mesh i; the primitive at flattened
\* position special.at is of kind special.kind, the others of kind kinds.
Meshes(shape, kinds, pattern, special) ==
  [i \in 1..Len(shape) |->
    [primitives |->
      [j \in 1..shape[i] |->
        LET k == Sum(shape, i - 1) + j IN
        Primitive(IF k = special.at THEN special.kind ELSE KindAt(kinds, k),
                  MaterialAt(pattern, k))]]]

Container(sources, nmaterials, ms) ==
  [ok |-> TRUE, buffers |-> Buffers, bufferViews |-> BufferViews,
   accessors |-> Accessors, images |-> Images,
   textures |-> [k \in 1..Len(sources) |-> [source |-> sources[k]]],
   materials |-> SubSeq(Materials, 1, nmaterials),
   meshes |-> ms]

\* A file has at most MaxMeshes meshes and MaxPrims primitives in all.
Shapes ==
  {shape \in UNION {[1..n -> 0..MaxPrims] : n \in 0..MaxMeshes} :
     Sum(shape, Len(shape)) <= MaxPrims}
NoSpecial == [at |-> 0, kind |-> "indexed"]

\* The GL faults of a load of n primitives: none, or one stage failing at one
\* primitive or at all of them.
FaultStages ==
  {<<"vao", 0>>, <<"texgen", 0>>, <<"teximg", 0>>}
  \cup {<<s, b>> : s \in {"bufgen", "bufdata"}, b \in 1..MaxFaultBuf}

Faults(n) ==
  {NoFault} \cup
  {[at |-> a, stage |-> s[1], buf |-> s[2]] :
     a \in {{k} : k \in 1..n} \cup {1..n}, s \in FaultStages}

\* ------------------------------------------------------------------ specifications
\* The life of one loader: loads of a few files, renders and cleanups in any
\* order.
LifeFiles ==
  {NoGltf,
   Container(<<>>, 0, <<>>),
   Container(<<0>>, 1, Meshes(<<1>>, "indexed", "zero", NoSpecial)),
   Container(<<0, 4>>, 2, Meshes(<<2, 1>>, "mixed", "up", NoSpecial))}

LifeFaults ==
  {NoFault} \cup {[at |-> {1}, stage |-> s, buf |-> 1] :
                    s \in {"vao", "bufgen", "bufdata", "texgen", "teximg"}}

LoadFile ==
  /\ loads < MaxLoads
  /\ \E file \in LifeFiles, f \in LifeFaults : Load(file, f)

Next == LoadFile \/ Render \/ Cleanup

Spec == Init /\ [][Next]_vars

\* The first load of a fresh loader, of a well-formed file, under every GL
\* fault, and the render that follows.
UploadFile(sources, nmaterials, shape, kinds, pattern) ==
  Container(sources, nmaterials, Meshes(shape, kinds, pattern, NoSpecial))

NumPrimitives(file) == Len(Flatten(file.meshes, 1))

LoadUpload ==
  /\ loads = 0
  /\ \E sources \in {<<>>, <<0>>, <<0, 4>>}, nmaterials \in {0, 1},
        shape \in Shapes, kinds \in {"indexed", "mixed"},
        pattern \in {"none", "zero", "up", "down"} :
       \E f \in Faults(Sum(shape, Len(shape))) :
         Load(UploadFile(sources, nmaterials, shape, kinds, pattern), f)

NextUpload == LoadUpload \/ Render

SpecUpload == Init /\ [][NextUpload]_vars

\* The first load of a fresh loader, of a file with at most one primitive gone
\* wrong and any of these texture lists, on a GL that does not fail, and the
\* render that follows.
SpecialKinds ==
  {"short_attr", "bad_attr", "short_idx", "bad_idx", "no_accessor", "no_view",
   "no_buffer", "no_idx_accessor", "no_position"}

Specials(n) ==
  {NoSpecial} \cup {[at |-> k, kind |-> kind] : k \in 1..n, kind \in SpecialKinds}

SourceLists ==
  {<<>>, <<0>>, <<2>>, <<0, 4>>, <<2, 0>>, <<1, 0>>, <<9, 0>>, <<None, 0>>,
   <<3, 0>>, <<0, 2>>}

DecodeFile(sources, shape, pattern, special) ==
  Container(sources, 1, Meshes(shape, "indexed", pattern, special))

LoadDecode ==
  /\ loads = 0
  /\ \E sources \in SourceLists, shape \in Shapes, pattern \in {"none", "zero", "up"} :
       \E special \in Specials(Sum(shape, Len(shape))) :
         Load(DecodeFile(sources, shape, pattern, special), NoFault)

NextDecode == LoadDecode \/ Render

SpecDecode == Init /\ [][NextDecode]_vars

\* The first load of a fresh loader, of a file whose one primitive names one
\* accessor, as its POSITION attribute or as its index list; the accessor is
\* any combination of a bufferView, a byte offset, a component type (5124, 0
\* and None are not in the table of _get_numpy_dtype), a type ("TENSOR" is not
\* in the component_count table) and a count.
ComponentTypes == {5120, 5121, 5122, 5123, 5124, 5125, 5126, 0, None}
AccessorTypes ==
  {"SCALAR", "VEC2", "VEC3", "VEC4", "MAT2", "MAT3", "MAT4", "TENSOR"}

AccessorFile(accessor, usage) ==
  [Container(<<>>, 0,
     <<[primitives |->
          <<[material |-> None,
             attributes |-> IF usage = "attribute" THEN Attributes(0, None, None)
                            ELSE Attributes(None, None, None),
             indices |-> IF usage = "attribute" THEN None ELSE 0]>>]>>)
   EXCEPT !.accessors = <<accessor>>]

LoadAccessor ==
  /\ loads = 0
  /\ \E bufferView \in {0, 1}, byteOffset \in 0..MaxByteOffset,
        componentType \in ComponentTypes, type \in AccessorTypes,
        count \in 0..MaxCount, usage \in {"attribute", "indices"} :
       Load(AccessorFile(Accessor(bufferView, byteOffset, componentType, type, count),
                         usage),
            NoFault)

NextAccessor == LoadAccessor \/ Render

SpecAccessor == Init /\ [][NextAccessor]_vars

\* ------------------------------------------------------------------ camera
\* The Camera object on its own: the main loop's calls of set_target,
\* clear_target, update, handle_rotation and handle_zoom in any order.  A call
\* that moves the camera is followed while the camera stays within MaxMove
\* steps of the pose it last aimed at.
MaxDt == 2
MaxMove == 1

\* One wheel step: handle_zoom(event.y * 30).
WheelStep == 3000

\* How far the camera stands from the pose it last aimed at, in wheel steps
\* of distance and half degrees of angle.
Displacement(c) ==
  Abs(c.yaw - c.target_yaw) * WheelStep
    + Abs(c.pitch - c.target_pitch) * WheelStep
    + Abs(c.distance - c.target_distance)
    + (IF c.zoom_distance # None THEN Abs(c.zoom_distance - c.target_distance) ELSE 0)

Near(c) == Displacement(c) <= MaxMove * WheelStep

CameraStep(name, c) ==
  /\ camera' = c
  /\ op' = name
  /\ UNCHANGED <<planets, property_editor, editors, data_dir, now, applied>>
  /\ UNCHANGED loader_vars

SetTarget == \E name \in LoadedPlanets : CameraStep("set_target", set_target(camera, name, planets))

ClearTarget == CameraStep("clear_target", clear_target(camera))

CameraUpdate == \E dt \in 1..MaxDt : CameraStep("update", camera_update(camera, dt))

HandleRotation ==
  \E rel_x \in {-1, 0, 1}, rel_y \in {-1, 0, 1} :
    /\ handle_rotation(camera, rel_x, rel_y) # camera => Near(handle_rotation(camera, rel_x, rel_y))
    /\ CameraStep("handle_rotation", handle_rotation(camera, rel_x, rel_y))

HandleZoom ==
  \E y \in {-1, 1} :
    /\ handle_zoom(camera, y * WheelStep, planets) # camera
         => Near(handle_zoom(camera, y * WheelStep, planets))
    /\ CameraStep("handle_zoom", handle_zoom(camera, y * WheelStep, planets))

NextCamera == SetTarget \/ ClearTarget \/ CameraUpdate \/ HandleRotation \/ HandleZoom

SpecCamera == Init /\ [][NextCamera]_vars

\* The main loop calls Camera.update once a frame for as long as it runs, and
\* here no set_target or clear_target interrupts a transition that has begun.
SetTargetAtRest == ~camera.is_transitioning /\ SetTarget

ClearTargetAtRest == ~camera.is_transitioning /\ ClearTarget

NextCameraSettle ==
  SetTargetAtRest \/ ClearTargetAtRest \/ CameraUpdate \/ HandleRotation \/ HandleZoom

SpecCameraSettle == Init /\ [][NextCameraSettle]_vars /\ WF_vars(CameraUpdate)

\* ------------------------------------------------- apply_property_change
\* _create_planet_data and the json.dump of it: what the editor reads of a
\* planet, with reset_timestamp None when the key is left out.
create_planet_data(ps, name, reset_timestamp) ==
  [exists |-> TRUE, name |-> name, scale |-> ps[name].scale,
   orbit_angle |-> ps[name].orbit_angle,
   rotation_angle |-> ps[name].rotation_angle,
   reset_timestamp |-> reset_timestamp]

\* update_planet_data: current_planet.json with reset_timestamp time.time().
update_planet_data(dd, ps, name, t) ==
  [dd EXCEPT !.current_planet = create_planet_data(ps, name, t)]

recalculate_orbit_radius(name, planet) ==
  IF name = "sun" THEN [planet EXCEPT !.orbit_radius = 0]
  ELSE [planet EXCEPT !.orbit_radius =
          Max(ScaledDistance(planet.config.distance), 17000)]

recalculate_scale(name, planet) ==
  IF name = "sun"
    THEN [planet EXCEPT !.scale =
            Max(100, Min(50000, (VISUAL_SIZES[name] * planet.config.diameter)
                                  \div PlanetConfigs[name].diameter))]
    ELSE [planet EXCEPT !.scale =
            Max(10, Min(10000, (VISUAL_SIZES[name] * planet.config.diameter)
                                 \div PlanetConfigs[name].diameter))]

\* The assignments reset_all_properties and reset_all_simulation share: the
\* five configuration fields, the two speeds and the scale of one planet.
restore_properties(name, planet) ==
  [planet EXCEPT
     !.config = [diameter |-> PlanetConfigs[name].diameter,
                 distance |-> PlanetConfigs[name].distance,
                 mass |-> PlanetConfigs[name].mass,
                 orbit_speed |-> PlanetConfigs[name].orbit_speed,
                 rotation_period |-> PlanetConfigs[name].rotation_period],
     !.orbit_speed = PlanetConfigs[name].orbit_speed * 2,
     !.rotation_speed =
        IF name = "sun" THEN 2000000
        ELSE (IF PlanetConfigs[name].rotation_period < 0 THEN -1 ELSE 1)
               * (100000000 \div Abs(PlanetConfigs[name].rotation_period)),
     !.scale = VISUAL_SIZES[name]]

\* reset_all_properties for the current planet.
reset_all_properties(name, planet, angle) ==
  reset_position(
    [restore_properties(name, planet) EXCEPT !.orbit_radius = OriginalOrbitPositions[name]],
    angle)

\* reset_all_simulation that recalculates nothing about the orbits.
reset_all_simulation_keeps_orbits(ps, c, angles) ==
  [planets |-> [name \in DOMAIN ps |->
                  reset_position(restore_properties(name, ps[name]), angles[name])],
   camera |-> [clear_target(c) EXCEPT !.distance = 300000, !.yaw = 90, !.pitch = -60]]

\* SolarSystem.reset_all_simulation; angles[name] is the random draw of the
\* planet's reset_position.
reset_all_simulation(ps, c, angles) ==
  [planets |-> [name \in DOMAIN ps |->
                  [reset_position(restore_properties(name, ps[name]), angles[name])
                     EXCEPT !.orbit_radius = OriginalOrbitPositions[name]]],
   camera |-> [clear_target(c) EXCEPT !.distance = 300000, !.yaw = 90, !.pitch = -60]]

\* What one call changes: the planets, the camera and property_data.
Effect(ps, c, dd) == [planets |-> ps, camera |-> c, data_dir |-> dd]

\* apply_property_change(change_data) with current_planet = name at time t.
apply_property_change(name, change_data, ps, c, dd, t, angles) ==
  IF name = NoPlanet THEN Effect(ps, c, dd)
  ELSE CASE change_data.property = "rotation_speed" ->
              Effect([ps EXCEPT ![name].rotation_speed = change_data.value], c, dd)
         [] change_data.property = "orbit_speed" ->
              Effect([ps EXCEPT ![name].orbit_speed = change_data.value], c, dd)
         [] change_data.property = "rotation_angle" ->
              Effect([ps EXCEPT ![name].rotation_angle = change_data.value], c, dd)
         [] change_data.property = "scale" ->
              Effect([ps EXCEPT ![name].scale = change_data.value], c, dd)
         [] change_data.property = "diameter" ->
              Effect([ps EXCEPT ![name] =
                        recalculate_scale(name, [ps[name] EXCEPT !.config.diameter = change_data.value])],
                     c, dd)
         [] change_data.property = "distance" ->
              Effect([ps EXCEPT ![name] =
                        recalculate_orbit_radius(name, [ps[name] EXCEPT !.config.distance = change_data.value])],
                     c, dd)
         [] change_data.property = "reset_position" ->
              Effect([ps EXCEPT ![name] = reset_position(ps[name], angles[name])], c, dd)
         [] change_data.property = "reset_all" ->
              Effect([ps EXCEPT ![name] = reset_all_properties(name, ps[name], angles[name])],
                     c,
                     update_planet_data(
                       dd, [ps EXCEPT ![name] = reset_all_properties(name, ps[name], angles[name])],
                       name, t))
         [] change_data.property = "reset_simulation" ->
              Effect(reset_all_simulation(ps, c, angles).planets,
                     reset_all_simulation(ps, c, angles).camera, dd)
         [] OTHER -> Effect(ps, c, dd)

\* The change_data an editor's controls and buttons send, and rotation_angle,
\* which apply_property_change accepts as well.  True is 1.
Change(property, value) == [property |-> property, value |-> value]

Changes ==
  {Change("rotation_speed", 1000000), Change("orbit_speed", 500),
   Change("rotation_angle", 90), Change("scale", 300),
   Change("diameter", 100000), Change("distance", 60000),
   Change("reset_position", 1), Change("reset_all", 1),
   Change("reset_simulation", 1)}

\* ------------------------------------------------------------------ editing
\* The main process's objects under select_planet and apply_property_change:
\* what a planet key and an arriving change do to the camera, the planets and
\* the communicator's current_planet.  The exchange with the editor process
\* is followed in SpecEditor.  Changes are followed while at most MaxEdited
\* planet fields differ from their start-up values.
MaxEdited == 2

EditedFields(name, planet) ==
  Cardinality({f \in {"diameter", "distance"} : planet.config[f] # PlanetConfigs[name][f]})
    + Cardinality({f \in {"scale", "orbit_radius", "orbit_speed", "rotation_speed",
                          "orbit_angle", "rotation_angle"} :
                     planet[f] # InitialPlanets[name][f]})

RECURSIVE Edited(_, _)
Edited(ps, names) ==
  IF names = {} THEN 0
  ELSE LET name == CHOOSE n \in names : TRUE
       IN EditedFields(name, ps[name]) + Edited(ps, names \ {name})

SelectPlanetInProcess ==
  \E name \in LoadedPlanets :
    /\ camera' = set_target(camera, name, planets)
    /\ property_editor' = [property_editor EXCEPT !.current_planet = name]
    /\ op' = "select_planet"
    /\ UNCHANGED <<planets, editors, data_dir, now, applied>>
    /\ UNCHANGED loader_vars

ApplyEffect(e) ==
  /\ Edited(e.planets, LoadedPlanets) <= MaxEdited
  /\ planets' = e.planets
  /\ camera' = e.camera
  /\ data_dir' = e.data_dir

\* The random draws a change consumes: none unless it resets a position.
Draws(change_data) ==
  IF change_data.property \in {"reset_position", "reset_all", "reset_simulation"}
    THEN [LoadedPlanets -> Angles]
    ELSE {[name \in LoadedPlanets |-> 0]}

ApplyPropertyChange ==
  \E change_data \in Changes : \E angles \in Draws(change_data) :
    /\ ApplyEffect(apply_property_change(property_editor.current_planet, change_data,
                                         planets, camera, data_dir, now, angles))
    /\ op' = change_data.property
    /\ UNCHANGED <<property_editor, editors, now, applied>>
    /\ UNCHANGED loader_vars

NextApply == SelectPlanetInProcess \/ ApplyPropertyChange

SpecApply == Init /\ [][NextApply]_vars

\* ------------------------------------------------------------------ editor
\* The main process and the property editor processes it starts, stepping
\* between the system calls at which they can see each other: the files of
\* property_data, the exit of a process and the kill of one.  editors[p] is
\* the p-th process started; Popen is followed MaxEditors times and the
\* editors send MaxWrites changes between them.
MaxEditors == 2
MaxWrites == 2

\* PropertyEditor.__init__ up to setup_ui: nothing read, no controls built.
NewEditor ==
  [state |-> "init", current_planet |-> NoFile, builds |-> 0, shown |-> NoPlanet,
   labels |-> None, sent |-> 0, writing |-> FALSE]

\* process.poll() is None.
Alive(p) == editors[p].state \in {"init", "mainloop", "idle"}

\* A process that has ended, by exit or by kill: of its memory the model
\* keeps the number of changes it wrote.
Ended(e, how) == [NewEditor EXCEPT !.state = how, !.sent = e.sent]

RECURSIVE Sent(_, _)
Sent(es, n) == IF n = 0 THEN 0 ELSE es[n].sent + Sent(es, n - 1)

Pids == 1..Len(editors)

\* monitor_planet_data that rebuilds the controls only for another planet.
monitor_planet_data_by_name(e, planet_data) ==
  IF ~planet_data.exists THEN e
  ELSE IF ~e.current_planet.exists \/ e.current_planet.name # planet_data.name
    THEN [e EXCEPT !.current_planet = planet_data, !.builds = @ + 1,
                   !.shown = planet_data.name,
                   !.labels = planet_data.rotation_angle]
    ELSE [e EXCEPT !.labels = planet_data.rotation_angle,
                   !.current_planet = planet_data]

\* monitor_planet_data with planet_data what json.load returns of
\* current_planet.json; builds counts the calls of create_property_controls.
monitor_planet_data(e, planet_data) ==
  IF ~planet_data.exists THEN e
  ELSE IF ~e.current_planet.exists \/ e.current_planet.name # planet_data.name
    THEN [e EXCEPT !.current_planet = planet_data, !.builds = @ + 1,
                   !.shown = planet_data.name,
                   !.labels = planet_data.rotation_angle]
    ELSE IF /\ planet_data.reset_timestamp # None
            /\ planet_data.reset_timestamp # e.current_planet.reset_timestamp
      THEN [e EXCEPT !.current_planet = planet_data, !.builds = @ + 1,
                     !.shown = planet_data.name,
                     !.labels = planet_data.rotation_angle]
      ELSE [e EXCEPT !.labels = planet_data.rotation_angle,
                     !.current_planet = planet_data]

\* start_monitoring.  The call made from __init__ runs before mainloop, where
\* root.quit() has no effect: mainloop clears the quit flag when it is
\* entered, so that editor stays in mainloop with no tick scheduled ("idle").
\* In a later tick quit ends mainloop and the process exits.
StartMonitoring ==
  \E p \in Pids :
    /\ editors[p].state \in {"init", "mainloop"}
    /\ ~editors[p].writing
    /\ IF data_dir.shutdown_signal
         THEN /\ data_dir' = [data_dir EXCEPT !.shutdown_signal = FALSE]
              /\ editors' = [editors EXCEPT ![p] =
                               IF editors[p].state = "init"
                                 THEN [editors[p] EXCEPT !.state = "idle"]
                                 ELSE Ended(editors[p], "exited")]
         ELSE /\ editors' = [editors EXCEPT ![p] =
                               [monitor_planet_data(editors[p], data_dir.current_planet)
                                  EXCEPT !.state = "mainloop"]]
              /\ UNCHANGED data_dir
    /\ op' = "start_monitoring"
    /\ UNCHANGED <<camera, planets, property_editor, now, applied>>
    /\ UNCHANGED loader_vars

\* The changes the model's editors send: a slider and a button.
EditorChanges == {Change("scale", 300), Change("reset_all", 1)}

\* send_property_change, first half: open(changes_file, 'w') truncates the
\* file.  The file system's clock has moved on since the last write or not.
SendOpen ==
  \E p \in Pids, t \in {now, now + 1} :
    /\ editors[p].state = "mainloop"
    /\ editors[p].current_planet.exists
    /\ ~editors[p].writing
    /\ Sent(editors, Len(editors)) < MaxWrites
    /\ editors' = [editors EXCEPT ![p].writing = TRUE]
    /\ data_dir' = [data_dir EXCEPT !.property_changes =
                      [exists |-> TRUE, complete |-> FALSE, mtime |-> t]]
    /\ now' = t
    /\ op' = "open"
    /\ UNCHANGED <<camera, planets, property_editor, applied>>
    /\ UNCHANGED loader_vars

\* send_property_change, second half: json.dump and the close of the file,
\* which follow the open within one tick of the file system's clock.
\* The written change is tagged with its writer, its serial number and the
\* planet the writer shows, none of which the file carries.
SendDump ==
  \E p \in Pids, change_data \in EditorChanges :
    /\ Alive(p)
    /\ editors[p].writing
    /\ editors' = [editors EXCEPT ![p].writing = FALSE, ![p].sent = @ + 1]
    /\ data_dir' = [data_dir EXCEPT !.property_changes =
                      [exists |-> TRUE, complete |-> TRUE, mtime |-> now,
                       change_data |-> change_data, pid |-> p,
                       serial |-> Sent(editors, p) + 1,
                       planet |-> editors[p].shown]]
    /\ op' = "send_property_change"
    /\ UNCHANGED <<camera, planets, property_editor, now, applied>>
    /\ UNCHANGED loader_vars

\* The user closes the editor's window: mainloop returns and the process
\* exits by itself.
CloseWindow ==
  \E p \in Pids :
    /\ editors[p].state \in {"mainloop", "idle"}
    /\ ~editors[p].writing
    /\ editors' = [editors EXCEPT ![p] = Ended(editors[p], "exited")]
    /\ op' = "close_window"
    /\ UNCHANGED <<camera, planets, property_editor, data_dir, now, applied>>
    /\ UNCHANGED loader_vars

\* select_planet up to the wait inside close_property_editor: set_target,
\* then the sentinel if the current editor's poll() is None.
SelectPlanet ==
  \E name \in LoadedPlanets :
    /\ property_editor.pc = "idle"
    /\ Len(editors) < MaxEditors
    /\ camera' = set_target(camera, name, planets)
    /\ IF /\ property_editor.property_editor_process # None
          /\ Alive(property_editor.property_editor_process)
         THEN /\ data_dir' = [data_dir EXCEPT !.shutdown_signal = TRUE]
              /\ property_editor' = [property_editor EXCEPT !.pc = "wait", !.planet = name]
         ELSE /\ UNCHANGED data_dir
              /\ property_editor' =
                   [property_editor EXCEPT !.property_editor_process = None,
                                           !.current_planet = NoPlanet,
                                           !.pc = "sleep", !.planet = name]
    /\ op' = "select_planet"
    /\ UNCHANGED <<planets, editors, now, applied>>
    /\ UNCHANGED loader_vars

\* close_property_editor: wait(timeout=2.0) returns because the process has
\* exited.
WaitReturns ==
  /\ property_editor.pc = "wait"
  /\ ~Alive(property_editor.property_editor_process)
  /\ property_editor' =
       [property_editor EXCEPT !.property_editor_process = None,
                               !.current_planet = NoPlanet, !.pc = "sleep"]
  /\ op' = "close_property_editor"
  /\ UNCHANGED <<camera, planets, editors, data_dir, now, applied>>
  /\ UNCHANGED loader_vars

\* close_property_editor that forgets the process after the timeout without
\* killing it.
WaitGivesUp ==
  /\ property_editor.pc = "wait"
  /\ Alive(property_editor.property_editor_process)
  /\ property_editor' =
       [property_editor EXCEPT !.property_editor_process = None,
                               !.current_planet = NoPlanet, !.pc = "sleep"]
  /\ op' = "kill"
  /\ UNCHANGED <<camera, planets, editors, data_dir, now, applied>>
  /\ UNCHANGED loader_vars

\* close_property_editor: TimeoutExpired after two seconds, kill().
WaitTimesOut ==
  /\ property_editor.pc = "wait"
  /\ Alive(property_editor.property_editor_process)
  /\ editors' = [editors EXCEPT ![property_editor.property_editor_process] =
                   Ended(editors[property_editor.property_editor_process], "killed")]
  /\ property_editor' =
       [property_editor EXCEPT !.property_editor_process = None,
                               !.current_planet = NoPlanet, !.pc = "sleep"]
  /\ op' = "kill"
  /\ UNCHANGED <<camera, planets, data_dir, now, applied>>
  /\ UNCHANGED loader_vars

\* show_planet_properties after close_property_editor: sleep, current_planet,
\* current_planet.json without reset_timestamp, start_property_editor.
ShowPlanetProperties ==
  /\ property_editor.pc = "sleep"
  /\ now' = now + 1
  /\ data_dir' = [data_dir EXCEPT !.current_planet =
                    create_planet_data(planets, property_editor.planet, None)]
  /\ editors' = Append(editors, NewEditor)
  /\ property_editor' =
       [property_editor EXCEPT !.current_planet = property_editor.planet,
                               !.property_editor_process = Len(editors) + 1,
                               !.pc = "idle", !.planet = NoPlanet]
  /\ op' = "show_planet_properties"
  /\ UNCHANGED <<camera, planets, applied>>
  /\ UNCHANGED loader_vars

\* check_property_changes up to the open: exists, stat, the comparison and
\* the assignment of last_change_time.
CheckPropertyChanges ==
  /\ property_editor.pc = "idle"
  /\ property_editor' =
       IF /\ data_dir.property_changes.exists
          /\ data_dir.property_changes.mtime > property_editor.last_change_time
         THEN [property_editor EXCEPT !.last_change_time = data_dir.property_changes.mtime,
                                      !.pc = "read"]
         ELSE property_editor
  /\ op' = "check_property_changes"
  /\ UNCHANGED <<camera, planets, editors, data_dir, now, applied>>
  /\ UNCHANGED loader_vars

\* One entry of applied: which write was applied to which planet.  applied
\* maps an entry to the number of times it happened.
Applied(file, to) ==
  [pid |-> file.pid, serial |-> file.serial, planet |-> file.planet, to |-> to]

Count(log, entry) == IF entry \in DOMAIN log THEN log[entry] ELSE 0

\* check_property_changes from the open: json.load raises on a file that is
\* being written, otherwise apply_property_change.
ReadPropertyChanges ==
  /\ property_editor.pc = "read"
  /\ property_editor' = [property_editor EXCEPT !.pc = "idle"]
  /\ IF data_dir.property_changes.complete
       THEN \E angles \in Draws(data_dir.property_changes.change_data) :
              /\ planets' = apply_property_change(
                              property_editor.current_planet,
                              data_dir.property_changes.change_data,
                              planets, camera, data_dir, now, angles).planets
              /\ camera' = apply_property_change(
                             property_editor.current_planet,
                             data_dir.property_changes.change_data,
                             planets, camera, data_dir, now, angles).camera
              /\ data_dir' = apply_property_change(
                               property_editor.current_planet,
                               data_dir.property_changes.change_data,
                               planets, camera, data_dir, now, angles).data_dir
              /\ applied' = IF property_editor.current_planet = NoPlanet THEN applied
                            ELSE Put(applied,
                                     Applied(data_dir.property_changes,
                                             property_editor.current_planet),
                                     Count(applied,
                                           Applied(data_dir.property_changes,
                                                   property_editor.current_planet)) + 1)
       ELSE UNCHANGED <<planets, camera, data_dir, applied>>
  /\ op' = "apply_property_change"
  /\ UNCHANGED <<editors, now>>
  /\ UNCHANGED loader_vars

NextEditor ==
  \/ SelectPlanet
  \/ WaitReturns
  \/ WaitTimesOut
  \/ ShowPlanetProperties
  \/ CheckPropertyChanges
  \/ ReadPropertyChanges
  \/ StartMonitoring
  \/ SendOpen
  \/ SendDump
  \/ CloseWindow

SpecEditor == Init /\ [][NextEditor]_vars

\* ------------------------------------------------------------------ claims
\* The handles that are allocated and not deleted, and the handles the loader
\* holds in its three lists.
Live == {h \in 1..Len(gl) : gl[h].dels = 0}
Range(hs) == {hs[k] : k \in 1..Len(hs)}
Recorded == Range(vaos) \cup Range(vbos) \cup Range(texture_ids)

\* The handle of `kind` in the list hs that the latest load generated for the
\* primitive at (i, j), or None.
HandlesFor(kind, hs, i, j) ==
  {h \in Range(hs) : /\ gl[h].kind = kind
                     /\ gl[h].load = loads
                     /\ gl[h].mesh = i
                     /\ gl[h].prim = j}
HandleFor(kind, hs, i, j) ==
  IF HandlesFor(kind, hs, i, j) = {} THEN None
  ELSE CHOOSE h \in HandlesFor(kind, hs, i, j) : TRUE

\* C1: a load that follows a load of the same file, both without a GL fault,
\* leaves as many live GPU handles as the first one left.
C1_ReloadKeepsHandleCount ==
  [][(/\ op = "load" /\ ~raised /\ fault = NoFault
      /\ op' = "load" /\ ~raised' /\ fault' = NoFault
      /\ gltf' = gltf)
     => Cardinality(Live') = Cardinality(Live)]_vars

\* C2: a cleanup that follows a cleanup issues no delete call, and leaves no
\* handle deleted more than once.
C2_SecondCleanupDeletesNothing ==
  [][(op = "cleanup" /\ op' = "cleanup")
     => /\ calls' = <<>>
        /\ \A h \in 1..Len(gl') : gl'[h].dels <= 1]_vars

\* C3: every handle a load allocates is recorded in vaos, vbos or texture_ids,
\* and after loads followed by one cleanup every allocated handle has been
\* deleted exactly once.
C3_EveryHandleReleasedOnce ==
  /\ op = "load" => \A h \in 1..Len(gl) : gl[h].load = loads => h \in Recorded
  /\ (op = "cleanup" /\ cleanups = 1) => \A h \in 1..Len(gl) : gl[h].dels = 1

\* C4: for every primitive, render binds the vertex array the upload recorded
\* for that primitive, and skips the primitive when it recorded none.
C4_RenderBindsOwnVertexArray ==
  op = "render" =>
    \A k \in 1..Len(calls) :
      calls[k].vao = HandleFor("vao", vaos, calls[k].mesh, calls[k].prim)

\* C5: for every primitive it draws, render binds the texture the upload
\* recorded for that primitive, and none when it recorded none.
C5_RenderBindsOwnTexture ==
  op = "render" =>
    \A k \in 1..Len(calls) :
      calls[k].draw # "skip" =>
        calls[k].texture = HandleFor("tex", texture_ids, calls[k].mesh, calls[k].prim)

\* C6: after a load that did not raise, on a GL that does not fail, there are
\* as many vertex arrays as the container has primitives, and at most as many
\* textures.
C6_OneVertexArrayPerPrimitive ==
  (op = "load" /\ ~raised /\ fault = NoFault) =>
    /\ Len(vaos) = NumPrimitives(gltf)
    /\ Len(texture_ids) <= NumPrimitives(gltf)

\* The byte window of accessor accessor_idx with component_count components
\* per element ends past the end of its buffer.
Exceeds(g, accessor_idx, component_count) ==
  /\ Resolves(g, accessor_idx)
  /\ At(g.bufferViews, At(g.accessors, accessor_idx).bufferView).byteOffset
       + At(g.accessors, accessor_idx).byteOffset
       + At(g.accessors, accessor_idx).count * component_count
           * ItemSize(GetNumpyDtype(At(g.accessors, accessor_idx).componentType))
     > At(g.buffers, At(g.bufferViews, At(g.accessors, accessor_idx).bufferView).buffer)

\* Every accessor, bufferView and buffer the file's primitives and textures
\* name exists.
NoDangling(g) ==
  /\ \A i \in 1..Len(g.meshes) : \A j \in 1..Len(g.meshes[i].primitives) :
       /\ \A a \in DOMAIN g.meshes[i].primitives[j].attributes :
            g.meshes[i].primitives[j].attributes[a] # None
              => Resolves(g, g.meshes[i].primitives[j].attributes[a])
       /\ g.meshes[i].primitives[j].indices # None
            => Resolves(g, g.meshes[i].primitives[j].indices)
  /\ \A k \in 1..Len(g.textures) :
       (Has(g.images, g.textures[k].source)
          /\ At(g.images, g.textures[k].source).uri = "")
         => ImageResolves(g, At(g.images, g.textures[k].source))

\* Mesh i of self.meshes has all the primitives of mesh i of the container, so
\* its primitive j is the container's primitive j.
Aligned(i) ==
  /\ i <= Len(meshes)
  /\ Len(meshes[i].primitives) = Len(gltf.meshes[i].primitives)

\* C7: after a load of a file without dangling references, the load has not
\* raised, an attribute whose byte window exceeds the buffer is absent from its
\* primitive, and so is such an index list.
C7_WindowPastBufferIsOmitted ==
  (op = "load" /\ gltf.ok /\ NoDangling(gltf)) =>
    /\ ~raised
    /\ \A i \in 1..Len(gltf.meshes) : \A j \in 1..Len(gltf.meshes[i].primitives) :
         Aligned(i) =>
           /\ \A a \in DOMAIN gltf.meshes[i].primitives[j].attributes :
                Exceeds(gltf, gltf.meshes[i].primitives[j].attributes[a],
                        ComponentCount(At(gltf.accessors,
                          gltf.meshes[i].primitives[j].attributes[a]).type))
                  => a \notin DOMAIN meshes[i].primitives[j].attributes
           /\ Exceeds(gltf, gltf.meshes[i].primitives[j].indices, 1)
                => meshes[i].primitives[j].indices = NoArray

\* C8: a load of a file with a dangling reference does not raise, and stores
\* every material and every mesh of the container.
C8_DanglingReferenceIsLocal ==
  (op = "load" /\ gltf.ok /\ ~NoDangling(gltf)) =>
    /\ ~raised
    /\ Len(materials) = Len(gltf.materials)
    /\ Len(meshes) = Len(gltf.meshes)

\* Texture m of the container names an image that exists and fails to decode.
DecodeFails(g, m) ==
  /\ Has(g.textures, m)
  /\ Has(g.images, At(g.textures, m).source)
  /\ IF At(g.images, At(g.textures, m).source).uri # ""
       THEN ExternalImage(At(g.images, At(g.textures, m).source)) = "raise"
       ELSE EmbeddedImage(At(g.images, At(g.textures, m).source)) = "raise"

\* C9: after a load of a file without dangling references, whose textures may
\* fail to decode, the load has not raised, every mesh is stored, no texture
\* handle was generated for a primitive whose texture failed to decode, and
\* render binds no texture for it.
C9_FailedTextureIsSkipped ==
  (gltf.ok /\ NoDangling(gltf)) =>
    /\ op = "load" => (~raised /\ Len(meshes) = Len(gltf.meshes))
    /\ \A h \in 1..Len(gl) :
         gl[h].kind = "tex" =>
           ~DecodeFails(gltf, meshes[gl[h].mesh + 1].primitives[gl[h].prim + 1].material)
    /\ op = "render" =>
         \A k \in 1..Len(calls) :
           calls[k].texture # None =>
             ~DecodeFails(gltf,
                meshes[calls[k].mesh + 1].primitives[calls[k].prim + 1].material)

\* The buffers primitive k of self.meshes (flattened) needs: one per attribute
\* among POSITION, NORMAL and TEXCOORD_0, one for its index list.
BuffersNeeded(k) ==
  Cardinality(DOMAIN meshes[Flatten(meshes, 1)[k].mesh + 1]
                       .primitives[Flatten(meshes, 1)[k].prim + 1].attributes
              \cap {"POSITION", "NORMAL", "TEXCOORD_0"})
  + (IF meshes[Flatten(meshes, 1)[k].mesh + 1]
          .primitives[Flatten(meshes, 1)[k].prim + 1].indices # NoArray
       THEN 1 ELSE 0)

BuffersRecorded(k) ==
  Cardinality(HandlesFor("vbo", vbos, Flatten(meshes, 1)[k].mesh,
                         Flatten(meshes, 1)[k].prim))

\* C10: whatever GL call fails for whichever primitives, load does not raise,
\* and every primitive the fault does not hit has its vertex array and all its
\* buffers recorded.
C10_UploadFailureIsPerPrimitive ==
  op = "load" =>
    /\ ~raised
    /\ \A k \in 1..Len(Flatten(meshes, 1)) :
         FaultStage(fault, k) = "none" =>
           /\ HandleFor("vao", vaos, Flatten(meshes, 1)[k].mesh,
                        Flatten(meshes, 1)[k].prim) # None
           /\ BuffersRecorded(k) = BuffersNeeded(k)

\* C10's case: glBufferData raised for the first of three primitives in two
\* meshes, and the two later primitives have their vertex arrays.
C10_Witness ==
  /\ op = "load" /\ ~raised
  /\ fault.at = {1} /\ fault.stage = "bufdata"
  /\ Len(meshes) = 2 /\ Len(Flatten(meshes, 1)) = 3
  /\ Len(gl) > 0 /\ gl[1].kind = "vao" /\ 1 \notin Range(vaos)
  /\ Len(vaos) = 2

\* C11: a load that raises because the file cannot be opened or parsed (the
\* only loads that raise under Spec, whose other files are well formed)
\* allocates no GPU handle and leaves gltf, meshes, textures, materials and the
\* three handle lists as they were.
C11_ParseFailureKeepsTheAsset ==
  [][(loads' = loads + 1 /\ raised')
     => /\ gl' = gl
        /\ UNCHANGED <<gltf, meshes, textures, materials, vaos, vbos, texture_ids>>]_vars

\* C11's case: the second load raised on a loader that still holds the meshes
\* and handles of the first.
C11_Witness ==
  /\ op = "load" /\ raised /\ loads = 2
  /\ gltf.ok /\ meshes # <<>> /\ vaos # <<>> /\ texture_ids # <<>>

\* The primitive at flattened position k of self.meshes has no POSITION
\* attribute and no index list.
Positionless(k) ==
  /\ "POSITION" \notin DOMAIN meshes[Flatten(meshes, 1)[k].mesh + 1]
                                .primitives[Flatten(meshes, 1)[k].prim + 1].attributes
  /\ meshes[Flatten(meshes, 1)[k].mesh + 1]
       .primitives[Flatten(meshes, 1)[k].prim + 1].indices = NoArray

\* C12: a primitive of the container without POSITION and without indices is
\* assembled, and a render of an asset that holds such a primitive does not
\* raise and reaches every primitive of the asset.
C12_RenderToleratesMissingPosition ==
  /\ (op = "load" /\ ~raised) =>
       \A i \in 1..Len(gltf.meshes) : \A j \in 1..Len(gltf.meshes[i].primitives) :
         (/\ gltf.meshes[i].primitives[j].attributes["POSITION"] = None
          /\ gltf.meshes[i].primitives[j].indices = None)
           => /\ Aligned(i)
              /\ "POSITION" \notin DOMAIN meshes[i].primitives[j].attributes
  /\ (op = "render" /\ \E k \in 1..Len(Flatten(meshes, 1)) : Positionless(k)) =>
       /\ ~raised
       /\ Len(calls) = Len(Flatten(meshes, 1))

\* The entries of calls that draw the primitive at (i, j).
DrawsOf(i, j) ==
  {k \in 1..Len(calls) : /\ calls[k].mesh = i
                         /\ calls[k].prim = j
                         /\ calls[k].draw \in {"glDrawElements", "glDrawArrays"}}

\* C13: a render that does not raise issues exactly one draw for every
\* primitive that has a vertex array and none for the others; the draw is
\* glDrawElements of len(indices) indices of type GL_UNSIGNED_INT when the
\* primitive has an index list and glDrawArrays otherwise; the material
\* uniforms are set exactly when the material index names a loaded material.
C13_OneDrawPerVertexArray ==
  (op = "render" /\ ~raised) =>
    \A n \in 1..Len(Flatten(meshes, 1)) :
      LET i == Flatten(meshes, 1)[n].mesh
          j == Flatten(meshes, 1)[n].prim
          primitive == meshes[i + 1].primitives[j + 1]
      IN IF HandleFor("vao", vaos, i, j) = None THEN DrawsOf(i, j) = {}
         ELSE /\ Cardinality(DrawsOf(i, j)) = 1
              /\ \A k \in DrawsOf(i, j) :
                   /\ calls[k].draw = "glDrawElements" <=> primitive.indices # NoArray
                   /\ primitive.indices # NoArray =>
                        /\ calls[k].count = primitive.indices.size
                        /\ calls[k].index_type = "GL_UNSIGNED_INT"
                   /\ calls[k].uniforms <=> Has(materials, primitive.material)

\* The accessor the file of SpecAccessor holds, whether its primitive names it
\* as an attribute, where its window starts, and the array the load stored for
\* it (NoArray when it stored none).
TheAccessor == gltf.accessors[1]
AsAttribute == gltf.meshes[1].primitives[1].indices = None
WindowStart ==
  At(gltf.bufferViews, TheAccessor.bufferView).byteOffset + TheAccessor.byteOffset
BufferLength ==
  At(gltf.buffers, At(gltf.bufferViews, TheAccessor.bufferView).buffer)
StoredArray ==
  IF Len(meshes) # 1 \/ Len(meshes[1].primitives) # 1 THEN NoArray
  ELSE IF ~AsAttribute THEN meshes[1].primitives[1].indices
  ELSE IF "POSITION" \in DOMAIN meshes[1].primitives[1].attributes
    THEN meshes[1].primitives[1].attributes["POSITION"]
  ELSE NoArray

\* componentsPerElement and the byte size of a component, as the claims give
\* them.
ComponentsPerElement(shape) ==
  IF shape = "SCALAR" THEN 1
  ELSE IF shape = "VEC2" THEN 2
  ELSE IF shape = "VEC3" THEN 3
  ELSE IF shape \in {"VEC4", "MAT2"} THEN 4
  ELSE IF shape = "MAT3" THEN 9
  ELSE IF shape = "MAT4" THEN 16
  ELSE 3
StorageType(code) ==
  IF code = 5120 THEN "int8"
  ELSE IF code = 5121 THEN "uint8"
  ELSE IF code = 5122 THEN "int16"
  ELSE IF code = 5123 THEN "uint16"
  ELSE IF code = 5125 THEN "uint32"
  ELSE "float32"
StorageBytes(code) ==
  IF code \in {5120, 5121} THEN 1 ELSE IF code \in {5122, 5123} THEN 2 ELSE 4

\* The window of count x components x size bytes lies inside the buffer.
WindowFits(components) ==
  WindowStart + TheAccessor.count * components * StorageBytes(TheAccessor.componentType)
    <= BufferLength

\* The bytes of the stored array lie inside the buffer.
ReadInsideBuffer ==
  StoredArray # NoArray =>
    WindowStart + StoredArray.size * StorageBytes(TheAccessor.componentType)
      <= BufferLength

C15_ComponentTypeMapping ==
  (op = "load" /\ gltf.ok) =>
    /\ GetNumpyDtype(TheAccessor.componentType) = StorageType(TheAccessor.componentType)
    /\ ItemSize(GetNumpyDtype(TheAccessor.componentType))
         = StorageBytes(TheAccessor.componentType)
    /\ StoredArray # NoArray =>
         StoredArray.dtype = StorageType(TheAccessor.componentType)
    /\ TheAccessor.componentType \notin {5120, 5121, 5122, 5123, 5125, 5126} =>
         /\ ~raised
         /\ meshes = LoadMeshes([gltf EXCEPT !.accessors =
                        <<[TheAccessor EXCEPT !.componentType = 5126]>>]).meshes

\* C15's case: an attribute with the code 5124, which the table lacks, stored
\* as a float32 array of 2 rows of 3.
C15_Witness ==
  /\ op = "load" /\ gltf.ok /\ ~raised
  /\ TheAccessor.componentType = 5124 /\ AsAttribute
  /\ StoredArray = Array(6, 2, "float32")

\* C16: after a load, the image of every texture record is an RGBA image,
\* whether it came from an external file or from an embedded byte range.
C16_TextureImagesAreRGBA ==
  op = "load" =>
    \A k \in 1..Len(textures) : HasImage(textures[k]) => textures[k].image = "RGBA"

\* C17: after a load that did not raise, on a GL that does not fail, every
\* primitive of the loader has one vertex array and one recorded buffer per
\* array it carries (its attributes among POSITION, NORMAL and TEXCOORD_0, and
\* its index list), and vbos holds these buffers and nothing else, each once.
C17_OneBufferPerCarriedArray ==
  (op = "load" /\ ~raised /\ fault = NoFault) =>
    /\ Len(vaos) = Len(Flatten(meshes, 1))
    /\ \A k \in 1..Len(Flatten(meshes, 1)) : BuffersRecorded(k) = BuffersNeeded(k)
    /\ Cardinality(Range(vbos)) = Len(vbos)
    /\ \A h \in Range(vbos) : gl[h].kind = "vbo" /\ gl[h].load = loads

\* C17's case: one primitive with POSITION and indices only has 1 vertex array
\* and 2 buffers.
C17_Witness ==
  /\ op = "load" /\ ~raised /\ fault = NoFault
  /\ Len(Flatten(meshes, 1)) = 1
  /\ DOMAIN meshes[1].primitives[1].attributes = {"POSITION"}
  /\ meshes[1].primitives[1].indices # NoArray
  /\ Len(vaos) = 1 /\ Len(vbos) = 2

\* C18: a load of a container with no textures, no materials or no meshes does
\* not raise and leaves the loader's sequence of that kind empty; a render of
\* an asset without meshes issues no draw and does not raise.
C18_EmptySequencesAreTolerated ==
  /\ (op = "load" /\ gltf.ok) =>
       /\ (gltf.textures = <<>> \/ gltf.materials = <<>> \/ gltf.meshes = <<>>)
            => ~raised
       /\ gltf.textures = <<>> => textures = <<>>
       /\ gltf.materials = <<>> => materials = <<>>
       /\ gltf.meshes = <<>> => meshes = <<>>
  /\ (op = "render" /\ gltf.ok /\ gltf.meshes = <<>>) => (calls = <<>> /\ ~raised)

\* C18's case: a render after the load of a container with no textures, no
\* materials and no meshes.
C18_Witness ==
  /\ op = "render" /\ ~raised /\ loads = 1 /\ gltf.ok
  /\ gltf.textures = <<>> /\ gltf.materials = <<>> /\ gltf.meshes = <<>>
  /\ textures = <<>> /\ materials = <<>> /\ meshes = <<>> /\ calls = <<>>

\* C19: after a load that did not raise, every mesh of the loader has one
\* primitive per primitive of the container's mesh, in order, each with the
\* material index of its container primitive; a primitive whose index list
\* failed to decode is among them, without an index list.
C19_EveryPrimitiveIsAssembled ==
  (op = "load" /\ gltf.ok /\ ~raised) =>
    /\ Len(meshes) = Len(gltf.meshes)
    /\ \A i \in 1..Len(gltf.meshes) :
         /\ Aligned(i)
         /\ \A j \in 1..Len(gltf.meshes[i].primitives) :
              /\ meshes[i].primitives[j].material
                   = gltf.meshes[i].primitives[j].material
              /\ (/\ gltf.meshes[i].primitives[j].indices # None
                  /\ DecodeAccessor(gltf, gltf.meshes[i].primitives[j].indices,
                                    FALSE).status = "ValueError")
                   => meshes[i].primitives[j].indices = NoArray

\* C20: after a load that did not raise, the loader's texture sequence has one
\* entry per texture of the container, in order, entry k standing for the
\* container's texture k; a texture whose image failed to decode or whose
\* source names no image is an entry without an image.
C20_OneEntryPerTexture ==
  (op = "load" /\ gltf.ok /\ ~raised) =>
    /\ Len(textures) = Len(gltf.textures)
    /\ \A k \in 1..Len(gltf.textures) :
         /\ textures[k].index = gltf.textures[k].source
         /\ (DecodeFails(gltf, k - 1) \/ ~Has(gltf.images, gltf.textures[k].source))
              => ~HasImage(textures[k])

\* C28: once set_target or clear_target has begun a transition that no further
\* set_target or clear_target interrupts, the frames' calls of Camera.update
\* with dt > 0 bring the camera out of the transition, and in the state where
\* it leaves, distance, yaw and pitch are the target values.
C28_TransitionEndsAtTarget ==
  /\ camera.is_transitioning ~> ~camera.is_transitioning
  /\ [][camera.is_transitioning /\ ~camera'.is_transitioning
          => /\ camera'.distance = camera'.target_distance
             /\ camera'.yaw = camera'.target_yaw
             /\ camera'.pitch = camera'.target_pitch]_vars

C28_Witness ==
  /\ op = "update"
  /\ ~camera.is_transitioning
  /\ camera.target_planet = "earth"
  /\ camera.transition_time >= TransitionDuration
  /\ camera.distance = 3000
  /\ camera.start_distance # camera.distance

\* C29: a handle_rotation or handle_zoom call made while is_transitioning is
\* set leaves yaw, pitch, distance and zoom_distance as they were.
C29_InputIgnoredInTransition ==
  [][camera.is_transitioning /\ op' \in {"handle_rotation", "handle_zoom"}
       => /\ camera'.yaw = camera.yaw
          /\ camera'.pitch = camera.pitch
          /\ camera'.distance = camera.distance
          /\ camera'.zoom_distance = camera.zoom_distance]_vars

C29_Witness ==
  /\ op = "handle_zoom"
  /\ camera.is_transitioning
  /\ camera.transition_time > 0
  /\ camera.target_planet = "sun"
  /\ camera.zoom_distance = 60000

\* C30: in the state a reset_simulation change leaves behind, every loaded
\* planet has its start-up diameter, distance, mass, configured orbit speed,
\* rotation period, runtime orbit speed, rotation speed, scale and orbit
\* radius, and the camera has no target planet and no zoom distance.
C30_ResetSimulationRestoresStartUp ==
  op = "reset_simulation" /\ property_editor.current_planet # NoPlanet
    => /\ \A name \in LoadedPlanets :
            /\ planets[name].config = InitialPlanets[name].config
            /\ planets[name].orbit_speed = InitialPlanets[name].orbit_speed
            /\ planets[name].rotation_speed = InitialPlanets[name].rotation_speed
            /\ planets[name].scale = InitialPlanets[name].scale
            /\ planets[name].orbit_radius = InitialPlanets[name].orbit_radius
       /\ camera.target_planet = NoPlanet
       /\ camera.zoom_distance = None

\* A reset_simulation applied while the camera was aimed at an Earth whose
\* diameter had been edited to 100000 km (scale 17.24, zoom distance 43.10).
C30_Witness ==
  /\ op = "reset_simulation"
  /\ property_editor.current_planet = "earth"
  /\ camera.start_position = "earth"
  /\ camera.start_distance = 4310
  /\ planets["earth"].scale = 220
  /\ planets["earth"].config.diameter = 12756

\* The editor whose start_monitoring can run: the one in __init__ or in a
\* mainloop that has a tick scheduled.
Ticking(p) == editors[p].state \in {"init", "mainloop"} /\ ~editors[p].writing

\* C21: whenever the sentinel exists at a monitoring tick of the running
\* editor, that tick deletes the sentinel and the editor quits: its process
\* exits, so that it has no further tick, and it has read no planet data.
C21_SentinelStopsTheEditor ==
  [][op' = "start_monitoring" /\ data_dir.shutdown_signal
       => \A p \in Pids :
            Ticking(p)
              => /\ ~data_dir'.shutdown_signal
                 /\ editors'[p].state = "exited"
                 /\ editors'[p].builds <= editors[p].builds]_vars

\* The condition under which C22 says the controls are rebuilt, for editor e
\* reading planet_data.
MustRebuild(e, planet_data) ==
  \/ e.shown # planet_data.name
  \/ /\ planet_data.reset_timestamp # None
     /\ \/ e.current_planet.reset_timestamp = None
        \/ e.current_planet.reset_timestamp # planet_data.reset_timestamp

\* C22: a tick that reads current_planet.json rebuilds the controls exactly
\* when the file names another planet than the one shown, or carries a
\* reset_timestamp that the data read last did not carry or carried with
\* another value; otherwise the controls stay and the labels are refreshed.
C22_RebuildExactlyOnNewPlanetOrReset ==
  [][op' = "start_monitoring" /\ ~data_dir.shutdown_signal
       /\ data_dir.current_planet.exists
       => \A p \in Pids :
            Ticking(p)
              => /\ editors'[p].builds = editors[p].builds + 1
                      <=> MustRebuild(editors[p], data_dir.current_planet)
                 /\ editors'[p].builds \in {editors[p].builds, editors[p].builds + 1}
                 /\ editors'[p].shown = data_dir.current_planet.name
                 /\ editors'[p].labels = data_dir.current_planet.rotation_angle]_vars

C22_Witness ==
  \E p \in Pids :
    /\ op = "start_monitoring"
    /\ editors[p].state = "mainloop"
    /\ editors[p].builds = 2
    /\ editors[p].shown = "earth"
    /\ editors[p].current_planet.reset_timestamp # None

\* C23: a change written by an editor that showed planet A is never applied
\* to another planet B.
C23_ChangeReachesItsPlanet ==
  \A entry \in DOMAIN applied : entry.to = entry.planet

\* The number of times the write with this serial number of this editor has
\* been applied, to whatever planet.
RECURSIVE Times(_, _, _)
Times(entries, p, k) ==
  IF entries = {} THEN 0
  ELSE LET entry == CHOOSE e \in entries : TRUE
       IN (IF entry.pid = p /\ entry.serial = k THEN applied[entry] ELSE 0)
            + Times(entries \ {entry}, p, k)

\* The write that is in property_changes.json.
Pending(p, k) ==
  /\ data_dir.property_changes.exists
  /\ data_dir.property_changes.complete
  /\ data_dir.property_changes.pid = p
  /\ data_dir.property_changes.serial = k

\* The serial numbers of the writes editor p has completed: Sent(editors, p - 1)
\* were made before its first.
SerialsOf(p) == {k \in 1..MaxWrites + 1 : Sent(editors, p - 1) < k /\ k <= Sent(editors, p)}

\* C24: no property change is lost: a change an editor has written is applied
\* by a later poll, also when two are written between two polls; so a write
\* that is no longer the one in the file has been applied.
C24_NoChangeIsLost ==
  \A p \in Pids : \A k \in SerialsOf(p) :
    Pending(p, k) \/ Times(DOMAIN applied, p, k) >= 1

\* C25: every write is applied at most once.
C25_AppliedAtMostOnce ==
  \A p \in Pids : \A k \in 1..MaxWrites + 1 : Times(DOMAIN applied, p, k) <= 1

\* C26: in the state in which show_planet_properties has started a new editor
\* the sentinel does not exist, whether the previous editor exited on the
\* sentinel, was killed after the timeout or had exited by itself; so no new
\* editor meets a stale sentinel.
C26_NoSentinelAtStart ==
  op = "show_planet_properties" => ~data_dir.shutdown_signal

====
